---- MODULE Spec2Model ----
(***************************************************************************)
(* State-machine model of the organisation seeder and department tree.     *)
(*                                                                         *)
(*   src/core/management/commands/tree_init.py  the seeding command        *)
(*   src/core/models.py                         Role, Department, Employee *)
(*   src/core/views.py                          the flat-rows-to-tree view *)
(*                                                                         *)
(* The store is the three tables with their identity sequences.  The       *)
(* seeding command is one process whose position is pc; everything it does *)
(* between entering and leaving transaction.atomic() works on the live     *)
(* tables while txSaved keeps what a rollback restores.                    *)
(***************************************************************************)
EXTENDS Integers, Sequences, FiniteSets, TLC

VARIABLES
    roleTable,       \* set of Role rows [id, name, default_salary]
    deptTable,       \* function: Department id -> parent_id (NULL for a root)
    employeeTable,   \* sequence of Employee rows, in identity order
    roleSeq,         \* next identity of each table's sequence
    deptSeq,
    employeeSeq,
    pc,              \* position of the seeding command
    cfg,             \* SeedConfig of the running command (options before validation)
    rnd,             \* number of draws taken from random.Random(cfg.seed)
    txSaved,         \* tables and sequences as of entering transaction.atomic()
    roles,           \* handle: roles = _ensure_roles(...)
    departments,     \* handle: departments = _ensure_department_tree(...)
    existing_count,  \* _ensure_department_tree: Department.objects.count()
    prev_level_nodes,\* _ensure_department_tree: nodes of the level built last
    created,         \* _ensure_department_tree: rows read back so far
    level,           \* _ensure_department_tree: level built next
    now,             \* _seed_employees: timezone.now()
    empCreated,      \* _seed_employees: created
    error,           \* exception the command ended with, "" when none
    errorAt,         \* position at which it was raised
    writes,          \* write statements the running command has issued
    manualOps,       \* number of single-department saves so far
    validation,      \* last Department.clean: its instance and how it ended
    rows,            \* input of the last tree assembly
    tree,            \* result of the last index view: forest or an error
    seededWith       \* generation parameters of the last command that completed

vars == <<roleTable, deptTable, employeeTable, roleSeq, deptSeq, employeeSeq,
          pc, cfg, rnd, txSaved, roles, departments, existing_count,
          prev_level_nodes, created, level, now, empCreated, error, errorAt,
          writes, manualOps, validation, rows, tree, seededWith>>

storeVars == <<roleTable, deptTable, employeeTable, roleSeq, deptSeq, employeeSeq>>
localVars == <<roles, departments, existing_count, prev_level_nodes, created,
               level, now, empCreated>>

-----------------------------------------------------------------------------
(* Bounds of the model.                                                    *)

MaxManualOps == 1      \* single-department saves in one behaviour
MaxManualId == 2       \* identities a single-department save may name
MaxEmployees == 27     \* largest --employees option tried
MaxSeqStart == 1       \* a storage failure advances sequences only from values up to this
MaxRoleSeq == 14       \* a command without --truncate starts only while the role sequence is at most this
MaxCleanIds == 4       \* departments of a parent map handed to clean on its own
MaxRows == 3           \* rows handed to the tree assembly on its own
MaxTotal == 7          \* employees asked of _seed_employees on its own
MaxBatch == 3          \* batch sizes 1..MaxBatch tried there
MaxPool == 3           \* departments, and roles, handed to it there
MaxShift == 2          \* identity orders of one bulk insert: rotations by 0..MaxShift, and reversed
MaxGap == 1            \* sequence values skipped before a bulk insert

(* Program constants.                                                      *)

NULL == 0                      \* parent_id of a root (None); identities start at 1
RequiredDepartments == 25
RequiredLevels == 5
SalaryLow == 50000
SalaryHigh == 140000
SalaryBonusMax == 120000
MaxDaysBack == 3650
SecondsPerDay == 86400
DefaultBatchSize == 5000
DefaultSeed == 42

counts == <<1, 3, 5, 7, 9>>

-----------------------------------------------------------------------------
(* Plain data helpers.                                                     *)

Min(a, b) == IF a < b THEN a ELSE b

Range(s) == {s[i] : i \in 1..Len(s)}

\* Python s[a:b] for 0 <= a and 0 <= b.
Slice(s, a, b) == SubSeq(s, a + 1, Min(b, Len(s)))

\* sum(s[:n])
RECURSIVE SumFirst(_, _)
SumFirst(s, n) == IF n <= 0 THEN 0 ELSE s[n] + SumFirst(s, n - 1)

\* The members of a finite set of integers, ascending.
RECURSIVE SortedSeq(_)
SortedSeq(S) ==
    IF S = {} THEN <<>>
    ELSE LET m == CHOOSE x \in S : \A y \in S : x <= y
         IN  <<m>> \o SortedSeq(S \ {m})

-----------------------------------------------------------------------------
(* random.Random(seed): a deterministic stream.  The k-th draw of a run is *)
(* a fixed function of the seed and of k; rnd counts the draws taken.      *)

\* RandBelow of a generator seeded from the clock (its last digits),
\* random.Random(), and not from cfg.seed
RandBelow_clockSeeded(seed, cursor, n) ==
    (((now % 1000) + 1) * 7919 + cursor * 104729 + cursor * cursor * 31) % n

RandBelow(seed, cursor, n) ==
    ((seed + 1) * 7919 + cursor * 104729 + cursor * cursor * 31) % n

\* rnd.randint(a, b), the draw number `cursor` of the stream
RandInt(seed, cursor, a, b) == a + RandBelow(seed, cursor, b - a + 1)

\* rnd.shuffle(x): for i = len-1 down to 1: j = randbelow(i+1); swap x[i], x[j].
\* One draw per position, so a list of n elements takes n - 1 draws.
RECURSIVE ShuffleFrom(_, _, _, _)
ShuffleFrom(x, i, seed, cursor) ==
    IF i < 2 THEN x
    ELSE LET j == 1 + RandBelow(seed, cursor, i)
             y == [x EXCEPT ![i] = x[j], ![j] = x[i]]
         IN  ShuffleFrom(y, i - 1, seed, cursor + 1)

Shuffle(x, seed, cursor) == ShuffleFrom(x, Len(x), seed, cursor)

-----------------------------------------------------------------------------
(* The store: reads.                                                       *)

DeptIds == DOMAIN deptTable

\* Department.objects.all().only("id", "parent_id") on a table:
\* Meta.ordering = ("id",)
DepartmentRows(table) ==
    LET ids == SortedSeq(DOMAIN table)
    IN  [i \in 1..Len(ids) |-> [id |-> ids[i], parent_id |-> table[ids[i]]]]

DepartmentsAll == DepartmentRows(deptTable)

\* Department.objects.count()
DepartmentCount == Cardinality(DeptIds)

\* A role name is a number: 1..12 is the position of a curated name in
\* role_names (line 102), 100 + N is the synthesized name "Role N".
SynthName(n) == 100 + n

\* Sort key of a role name, for Role.Meta.ordering = ("name",): the curated
\* names in alphabetical order (Accountant, Data Analyst, Designer, Developer,
\* DevOps Engineer, HR Specialist, Junior Developer, Product Manager,
\* QA Engineer, Senior Developer, Support Engineer, Tech Lead), then "Role N"
\* as strings ("Role 1" < "Role 10" < "Role 2", N <= 99).
CuratedRank == <<7, 4, 10, 12, 9, 5, 8, 2, 6, 1, 3, 11>>

NameKey(name) ==
    IF name <= 12 THEN CuratedRank[name]
    ELSE LET n == name - 100
         IN  IF n < 10 THEN 1000 + n * 100
             ELSE 1000 + (n \div 10) * 100 + (n % 10) + 1

\* Role.objects.all().only("id", "default_salary") on a table: ordered by
\* name, which is unique
RoleRows(table) ==
    LET keys == SortedSeq({NameKey(r.name) : r \in table})
    IN  [i \in 1..Len(keys) |->
            CHOOSE r \in table : NameKey(r.name) = keys[i]]

\* RolesAll cut to the requested number of roles, existing[: cfg.roles]
RolesAll_requested == Slice(RoleRows(roleTable), 0, cfg.roles)

RolesAll == RoleRows(roleTable)

\* Employee.objects.count()
EmployeeCount == Len(employeeTable)

Store == [roles |-> roleTable, departments |-> deptTable,
          employees |-> employeeTable,
          roleSeq |-> roleSeq, deptSeq |-> deptSeq, employeeSeq |-> employeeSeq]

EmptyTable == [i \in {} |-> NULL]

-----------------------------------------------------------------------------
(* Inputs.                                                                 *)

role_names == <<1, 2, 3, 4, 5, 6, 7, 8, 9, 10, 11, 12>>

Seeds == {DefaultSeed, DefaultSeed + 1}

Clocks == {1000000000, 1000000001}      \* values of timezone.now()

BaseOptions == [employees |-> 3, departments |-> RequiredDepartments,
                levels |-> RequiredLevels, roles |-> 2, seed |-> DefaultSeed,
                batch_size |-> DefaultBatchSize, truncate |-> FALSE]

\* Options that pass validation: a few employees in one batch with curated
\* role names, and more employees than departments in several batches with
\* more roles than curated names.
ValidOptions ==
    {[BaseOptions EXCEPT !.seed = sd, !.truncate = t] :
        sd \in Seeds, t \in BOOLEAN}
    \cup {[BaseOptions EXCEPT !.employees = MaxEmployees, !.batch_size = 10,
                              !.roles = Len(role_names) + 1,
                              !.seed = sd, !.truncate = t] :
        sd \in Seeds, t \in BOOLEAN}

\* Options that fail validation: one option of BaseOptions made wrong, with
\* --truncate given.
InvalidOptions ==
    {[BaseOptions EXCEPT !.employees = v, !.truncate = TRUE] : v \in {0, -1}}
    \cup {[BaseOptions EXCEPT !.roles = 0, !.truncate = TRUE],
          [BaseOptions EXCEPT !.batch_size = 0, !.truncate = TRUE]}
    \cup {[BaseOptions EXCEPT !.departments = v, !.truncate = TRUE] :
             v \in {0, RequiredDepartments - 1, RequiredDepartments + 1}}
    \cup {[BaseOptions EXCEPT !.levels = v, !.truncate = TRUE] :
             v \in {0, RequiredLevels - 1, RequiredLevels + 1}}

Options == ValidOptions \cup InvalidOptions

NoCfg == [employees |-> 0, departments |-> 0, levels |-> 0, roles |-> 0,
          seed |-> 0, batch_size |-> 0, truncate |-> FALSE]

\* What the three generating functions take from the options: all of
\* SeedConfig but truncate, which only handle reads (line 61).
GenerationParameters(c) ==
    [employees |-> c.employees, departments |-> c.departments,
     levels |-> c.levels, roles |-> c.roles, seed |-> c.seed,
     batch_size |-> c.batch_size]

NoParameters == GenerationParameters(NoCfg)

NoSnapshot == [roles |-> {}, departments |-> EmptyTable, employees |-> <<>>,
               roleSeq |-> 0, deptSeq |-> 0, employeeSeq |-> 0]

NoValidation == [pk |-> NULL, parent_id |-> NULL, result |-> "none"]

NoTree == [status |-> "none", roots |-> <<>>, dep_id |-> NULL, parent_id |-> NULL]

-----------------------------------------------------------------------------
(* Initial state: the migrated, empty database and no command running.     *)

ClearLocals ==
    /\ roles' = <<>>
    /\ departments' = <<>>
    /\ existing_count' = 0
    /\ prev_level_nodes' = <<>>
    /\ created' = <<>>
    /\ level' = 0
    /\ now' = 0
    /\ empCreated' = 0

Init ==
    /\ roleTable = {}
    /\ deptTable = EmptyTable
    /\ employeeTable = <<>>
    /\ roleSeq = 1
    /\ deptSeq = 1
    /\ employeeSeq = 1
    /\ pc = "idle"
    /\ cfg = NoCfg
    /\ rnd = 0
    /\ txSaved = NoSnapshot
    /\ roles = <<>>
    /\ departments = <<>>
    /\ existing_count = 0
    /\ prev_level_nodes = <<>>
    /\ created = <<>>
    /\ level = 0
    /\ now = 0
    /\ empCreated = 0
    /\ error = ""
    /\ errorAt = ""
    /\ writes = 0
    /\ manualOps = 0
    /\ validation = NoValidation
    /\ rows = <<>>
    /\ tree = NoTree
    /\ seededWith = NoParameters

-----------------------------------------------------------------------------
(* Command.handle: validation and entry into transaction.atomic().         *)

\* _require_positive_int: the value is rejected
NotPositive(iv) == iv <= 0

\* ConfigInvalid without the check of --roles
ConfigInvalid_rolesUnchecked(o) ==
    \/ NotPositive(o.employees)
    \/ NotPositive(o.departments)
    \/ NotPositive(o.levels)
    \/ NotPositive(o.batch_size)
    \/ o.levels # RequiredLevels
    \/ o.departments # RequiredDepartments

\* handle, lines 43-56: the options raise ValueError
ConfigInvalid(o) ==
    \/ NotPositive(o.employees)
    \/ NotPositive(o.departments)
    \/ NotPositive(o.levels)
    \/ NotPositive(o.roles)
    \/ NotPositive(o.batch_size)
    \/ o.levels # RequiredLevels
    \/ o.departments # RequiredDepartments

InTransaction == pc \in {"truncate", "roles", "tree", "level", "populate", "batch"}

\* Leaving transaction.atomic() by an exception: the tables go back to what
\* they were on entry.  A sequence value drawn by nextval is not given back;
\* the RESTART IDENTITY of a TRUNCATE is.
\* RollbackAt with every statement committed as it runs (no atomic block)
RollbackAt_autocommit(err, rs, ds, es) ==
    /\ UNCHANGED <<roleTable, deptTable, employeeTable>>
    /\ roleSeq' = rs
    /\ deptSeq' = ds
    /\ employeeSeq' = es
    /\ pc' = "failed"
    /\ error' = err
    /\ errorAt' = pc

RollbackAt(err, rs, ds, es) ==
    /\ roleTable' = txSaved.roles
    /\ deptTable' = txSaved.departments
    /\ employeeTable' = txSaved.employees
    /\ IF cfg.truncate /\ pc # "truncate"
       THEN /\ roleSeq' = txSaved.roleSeq
            /\ deptSeq' = txSaved.deptSeq
            /\ employeeSeq' = txSaved.employeeSeq
       ELSE /\ roleSeq' = rs
            /\ deptSeq' = ds
            /\ employeeSeq' = es
    /\ pc' = "failed"
    /\ error' = err
    /\ errorAt' = pc

Rollback(err) == RollbackAt(err, roleSeq, deptSeq, employeeSeq)

HandleStart(o) ==
    /\ pc = "idle"
    /\ o.truncate \/ roleSeq <= MaxRoleSeq
    /\ cfg' = o
    /\ writes' = 0
    /\ IF ConfigInvalid(o)
       THEN /\ pc' = "failed"
            /\ error' = "ConfigurationError"
            /\ errorAt' = "validate"
            /\ UNCHANGED <<rnd, txSaved>>
       ELSE /\ pc' = "truncate"
            /\ rnd' = 0
            /\ txSaved' = Store
            /\ UNCHANGED <<error, errorAt>>
    /\ validation' = NoValidation
    /\ rows' = <<>>
    /\ tree' = NoTree
    /\ UNCHANGED <<storeVars, localVars, manualOps, seededWith>>

\* _truncate_tables: TRUNCATE ... RESTART IDENTITY CASCADE, when asked for
Truncate ==
    /\ pc = "truncate"
    /\ IF cfg.truncate
       THEN /\ roleTable' = {}
            /\ deptTable' = EmptyTable
            /\ employeeTable' = <<>>
            /\ roleSeq' = 1
            /\ deptSeq' = 1
            /\ employeeSeq' = 1
            /\ writes' = writes + 1
       ELSE UNCHANGED <<storeVars, writes>>
    /\ pc' = "roles"
    /\ UNCHANGED <<cfg, rnd, txSaved, localVars, error, errorAt, manualOps, seededWith, validation, rows, tree>>

-----------------------------------------------------------------------------
(* _ensure_roles                                                           *)

\* The rows of roles_to_create, with the identities bulk_create gives them:
\* the shuffle takes Len(role_names) - 1 draws, then one draw per role.
RolesToCreate(n, seed, cursor, firstId) ==
    LET shuffled == Shuffle(role_names, seed, cursor)
        useSelected == n <= Len(role_names)
        c0 == cursor + Len(role_names) - 1
    IN  {[id |-> firstId + i,
          name |-> IF useSelected THEN shuffled[i + 1] ELSE SynthName(i + 1),
          default_salary |-> RandInt(seed, c0 + i, SalaryLow, SalaryHigh)]
            : i \in 0..(n - 1)}

EnsureRoles ==
    /\ pc = "roles"
    /\ IF roleTable # {}
       THEN /\ roles' = RolesAll
            /\ UNCHANGED <<roleTable, roleSeq, rnd, writes>>
       ELSE /\ roleTable' = RolesToCreate(cfg.roles, cfg.seed, rnd, roleSeq)
            /\ roleSeq' = roleSeq + cfg.roles
            /\ rnd' = rnd + Len(role_names) - 1 + cfg.roles
            /\ roles' = RoleRows(roleTable')
            /\ writes' = writes + 1
    /\ pc' = "tree"
    /\ UNCHANGED <<deptTable, employeeTable, deptSeq, employeeSeq, cfg, txSaved,
                   departments, existing_count, prev_level_nodes, created, level,
                   now, empCreated, error, errorAt, manualOps, seededWith, validation, rows, tree>>

-----------------------------------------------------------------------------
(* _ensure_department_tree                                                 *)

\* Department.objects.bulk_create(rows): the rows get the next identities of
\* the sequence, in list order.  parents[i] is the parent_id of row i.
BulkCreateDepartments(table, firstId, parents) ==
    [id \in (DOMAIN table) \cup (firstId..(firstId + Len(parents) - 1)) |->
        IF id \in DOMAIN table THEN table[id] ELSE parents[id - firstId + 1]]

\* The orders in which the records of one bulk insert of n records may get
\* their identities: order[i] is the rank of record i's identity among the
\* n new ones.  ListOrder gives them out in list order.
ListOrder(n) == [i \in 1..n |-> i]

Rotated(n, k) == [i \in 1..n |-> ((i - 1 + k) % n) + 1]

InsertOrders(n) ==
    {Rotated(n, k) : k \in 0..MaxShift}
    \cup {[i \in 1..n |-> n + 1 - Rotated(n, k)[i]] : k \in 0..MaxShift}

\* NewIdentity of a storage layer that counts identities downwards
NewIdentity_descending(firstId, order, i) == 0 - (firstId + order[i] - 1)

\* The identity record i of a bulk insert gets: a value of the sequence,
\* which is above every identity given out before.
NewIdentity(firstId, order, i) == firstId + order[i] - 1

\* Department.objects.bulk_create(rows) with the identities given out in
\* `order`.
BulkCreateDepartmentsIn(table, firstId, parents, order) ==
    LET new == {NewIdentity(firstId, order, i) : i \in 1..Len(parents)}
    IN  [id \in (DOMAIN table) \cup new |->
            IF id \in DOMAIN table THEN table[id]
            ELSE parents[CHOOSE i \in 1..Len(parents) :
                            NewIdentity(firstId, order, i) = id]]

\* LevelParents that puts every record past the first len(prev) under the
\* last node of prev, prev[min(i, len(prev) - 1)]
LevelParents_clamped(prev, level_count) ==
    [i \in 1..level_count |-> prev[Min(i, Len(prev))].id]

\* LevelParents with the parent's own parent_id taken for its id
LevelParents_parentOfParent(prev, level_count) ==
    [i \in 1..level_count |-> prev[((i - 1) % Len(prev)) + 1].parent_id]

\* to_create of one level: row i is parented to prev[i % len(prev)]
LevelParents(prev, level_count) ==
    [i \in 1..level_count |-> prev[((i - 1) % Len(prev)) + 1].id]

\* TreeDecision that tops a partial table up instead of refusing it
TreeDecision_repair(count, target) ==
    IF count >= target THEN "reuse" ELSE "build"

\* lines 131-139: reuse the stored departments, refuse a partial table, or
\* build the tree
TreeDecision(count, target) ==
    IF count >= target THEN "reuse"
    ELSE IF count # 0 THEN "conflict" ELSE "build"

\* ReuseDepartments taking the last `target` rows, [-target:]
ReuseDepartments_last(target) ==
    Slice(DepartmentsAll, Len(DepartmentsAll) - target, Len(DepartmentsAll))

\* line 133: Department.objects.all().only("id", "parent_id")[:target]
ReuseDepartments(target) == Slice(DepartmentsAll, 0, target)

EnsureTreeStart ==
    /\ pc = "tree"
    /\ existing_count' = DepartmentCount
    /\ IF TreeDecision(DepartmentCount, cfg.departments) = "reuse"
       THEN /\ departments' = ReuseDepartments(cfg.departments)
            /\ pc' = "populate"
            /\ UNCHANGED <<storeVars, prev_level_nodes, created, level, writes,
                           error, errorAt>>
       ELSE IF TreeDecision(DepartmentCount, cfg.departments) = "conflict"
       THEN /\ Rollback("StateConflictError")
            /\ UNCHANGED <<departments, prev_level_nodes, created, level, writes>>
       ELSE /\ deptTable' = BulkCreateDepartments(deptTable, deptSeq, <<NULL>>)
            /\ deptSeq' = deptSeq + 1
            /\ writes' = writes + 1
            /\ created' = DepartmentRows(deptTable')
            /\ prev_level_nodes' = Slice(DepartmentRows(deptTable'), 0, counts[1])
            /\ level' = 2
            /\ pc' = "level"
            /\ UNCHANGED <<roleTable, employeeTable, roleSeq, employeeSeq,
                           departments, error, errorAt>>
    /\ UNCHANGED <<cfg, rnd, txSaved, roles, now, empCreated, manualOps, seededWith, validation, rows, tree>>

\* One pass of the loop over levels 2..cfg.levels, and after the last pass
\* the count check and the return.  The bulk insert of the pass draws its
\* identities from firstId on and hands them to the records in `order`.
EnsureTreeLevelIn(firstId, order) ==
    /\ pc = "level"
    /\ IF prev_level_nodes = <<>>
       THEN /\ Rollback("InvariantViolationError")
            /\ UNCHANGED <<departments, prev_level_nodes, created, level, writes>>
       ELSE LET level_count == counts[level]
                to_create == LevelParents(prev_level_nodes, level_count)
                table == BulkCreateDepartmentsIn(deptTable, firstId, to_create, order)
                total_expected == SumFirst(counts, level)
                current_all == Slice(DepartmentRows(table), 0, total_expected)
                current_level_nodes ==
                    Slice(current_all, SumFirst(counts, level - 1), total_expected)
            IN  /\ writes' = writes + 1
                /\ created' = current_all
                /\ prev_level_nodes' = current_level_nodes
                /\ level' = level + 1
                /\ IF level + 1 <= cfg.levels
                   THEN /\ deptTable' = table
                        /\ deptSeq' = firstId + level_count
                        /\ UNCHANGED <<roleTable, employeeTable, roleSeq,
                                       employeeSeq, pc, departments, error, errorAt>>
                   ELSE IF Len(current_all) # cfg.departments
                   THEN /\ RollbackAt("InvariantViolationError", roleSeq,
                                       firstId + level_count, employeeSeq)
                        /\ UNCHANGED departments
                   ELSE /\ deptTable' = table
                        /\ deptSeq' = firstId + level_count
                        /\ departments' = current_all
                        /\ pc' = "populate"
                        /\ UNCHANGED <<roleTable, employeeTable, roleSeq,
                                       employeeSeq, error, errorAt>>
    /\ UNCHANGED <<cfg, rnd, txSaved, roles, existing_count, now, empCreated,
                   manualOps, seededWith, validation, rows, tree>>

\* The pass as PostgreSQL runs it for the command: one INSERT whose rows get
\* the next values of the sequence in the order of the list.
EnsureTreeLevel ==
    /\ pc = "level"
    /\ EnsureTreeLevelIn(deptSeq, ListOrder(counts[level]))

\* The pass on a storage layer that promises no more than fresh identities:
\* values above all earlier ones, after a gap or not, in some other order.
EnsureTreeLevelAnyOrder ==
    /\ pc = "level"
    /\ \E gap \in 0..MaxGap, order \in InsertOrders(counts[level]) :
          EnsureTreeLevelIn(deptSeq + gap, order)

-----------------------------------------------------------------------------
(* _seed_employees                                                         *)

first_names == <<1, 2, 3, 4, 5, 6, 7, 8, 9, 10>>   \* positions in first_names
last_names == <<1, 2, 3, 4, 5, 6, 7, 8>>
middle_names == <<1, 2, 3, 4, 5, 6, 7, 8>>

\* EmployeeAt that adds the offset to the baseline of the first role of the
\* pool, not to the baseline of the role it drew
EmployeeAt_firstBaseline(k, seed, cursor, role_list, dept_list, t, id) ==
    LET role == role_list[RandBelow(seed, cursor, Len(role_list)) + 1]
        offset == RandInt(seed, cursor + 1, 0, SalaryBonusMax)
        fn == first_names[RandBelow(seed, cursor + 2, Len(first_names)) + 1]
        ln == last_names[RandBelow(seed, cursor + 3, Len(last_names)) + 1]
        mn == middle_names[RandBelow(seed, cursor + 4, Len(middle_names)) + 1]
        days_back == RandInt(seed, cursor + 5, 0, MaxDaysBack)
        seconds_back == RandInt(seed, cursor + 6, 0, SecondsPerDay - 1)
    IN  [id |-> id,
         full_name |-> <<fn, ln, mn, k + 1>>,
         role_id |-> role.id,
         employment_date |-> t - (days_back * SecondsPerDay + seconds_back),
         salary |-> role_list[1].default_salary + offset,
         department_id |-> dept_list[(k % Len(dept_list)) + 1].id]

\* The employee with global index k (0-based), built from the draws that
\* start at `cursor`: role, salary offset, three name parts, days, seconds.
EmployeeAt(k, seed, cursor, role_list, dept_list, t, id) ==
    LET role == role_list[RandBelow(seed, cursor, Len(role_list)) + 1]
        offset == RandInt(seed, cursor + 1, 0, SalaryBonusMax)
        fn == first_names[RandBelow(seed, cursor + 2, Len(first_names)) + 1]
        ln == last_names[RandBelow(seed, cursor + 3, Len(last_names)) + 1]
        mn == middle_names[RandBelow(seed, cursor + 4, Len(middle_names)) + 1]
        days_back == RandInt(seed, cursor + 5, 0, MaxDaysBack)
        seconds_back == RandInt(seed, cursor + 6, 0, SecondsPerDay - 1)
    IN  [id |-> id,
         full_name |-> <<fn, ln, mn, k + 1>>,
         role_id |-> role.id,
         employment_date |-> t - (days_back * SecondsPerDay + seconds_back),
         salary |-> role.default_salary + offset,
         department_id |-> dept_list[(k % Len(dept_list)) + 1].id]

DrawsPerEmployee == 7

\* EmployeesBatch with a generator re-created from the seed for every batch
EmployeesBatch_freshStream(n, done, seed, cursor, role_list, dept_list, t, firstId) ==
    [i \in 1..n |->
        EmployeeAt(done + i - 1, seed, DrawsPerEmployee * (i - 1),
                   role_list, dept_list, t, firstId + i - 1)]

\* EmployeesBatch that indexes the departments by the position in the batch
EmployeesBatch_batchIndex(n, done, seed, cursor, role_list, dept_list, t, firstId) ==
    [i \in 1..n |->
        EmployeeAt(i - 1, seed, cursor + DrawsPerEmployee * (i - 1),
                   role_list, dept_list, t, firstId + i - 1)]

\* employees_batch of the pass that starts with `done` employees created
EmployeesBatch(n, done, seed, cursor, role_list, dept_list, t, firstId) ==
    [i \in 1..n |->
        EmployeeAt(done + i - 1, seed, cursor + DrawsPerEmployee * (i - 1),
                   role_list, dept_list, t, firstId + i - 1)]

\* n = batch_size if remaining > batch_size else remaining
BatchLength(total, done, batch_size) ==
    IF total - done > batch_size THEN batch_size ELSE total - done

\* EmployeesExist with the check left out
EmployeesExist_unchecked == FALSE

\* lines 212-213: the employee table is not empty
EmployeesExist == EmployeeCount # 0

\* The checks before the loop, and the loop's first test.
SeedEmployeesStart ==
    /\ pc = "populate"
    /\ IF roles = <<>> \/ departments = <<>>
       THEN /\ Rollback("ConfigurationError")
            /\ UNCHANGED <<now, empCreated>>
       ELSE /\ \E t \in Clocks : now' = t
            /\ IF EmployeesExist
               THEN /\ Rollback("StateConflictError")
                    /\ UNCHANGED empCreated
               ELSE /\ empCreated' = 0
                    /\ pc' = IF 0 < cfg.employees THEN "batch" ELSE "done"
                    /\ UNCHANGED <<storeVars, error, errorAt>>
    /\ UNCHANGED <<cfg, rnd, txSaved, roles, departments, existing_count,
                   prev_level_nodes, created, level, writes, manualOps, seededWith,
                   validation, rows, tree>>

\* One pass of the while loop: build a batch, bulk_create it, count it; when
\* the loop ends the function returns and the transaction commits.
SeedEmployeesBatch ==
    /\ pc = "batch"
    /\ LET n == BatchLength(cfg.employees, empCreated, cfg.batch_size)
           employees_batch ==
               EmployeesBatch(n, empCreated, cfg.seed, rnd, roles, departments,
                              now, employeeSeq)
       IN  /\ employeeTable' = employeeTable \o employees_batch
           /\ employeeSeq' = employeeSeq + n
           /\ rnd' = rnd + DrawsPerEmployee * n
           /\ empCreated' = empCreated + n
           /\ writes' = writes + 1
           /\ pc' = IF empCreated + n < cfg.employees THEN "batch" ELSE "done"
    /\ UNCHANGED <<roleTable, deptTable, roleSeq, deptSeq, cfg, txSaved, roles,
                   departments, existing_count, prev_level_nodes, created, level,
                   now, error, errorAt, manualOps, seededWith, validation, rows, tree>>

\* Employee.clean, lines 83-99, of an instance e against the stored roles:
\* the name must not be empty, the date and the role must be set (NULL
\* stands for None), and the salary must not be below the role's
\* default_salary.  self.role raises DoesNotExist when no such role is stored.
EmployeeClean(table, e) ==
    IF e.full_name = <<>> THEN "ValidationError"
    ELSE IF e.employment_date = NULL THEN "ValidationError"
    ELSE IF e.role_id = NULL THEN "ValidationError"
    ELSE IF \A r \in table : r.id # e.role_id THEN "DoesNotExist"
    ELSE LET role_default == (CHOOSE r \in table : r.id = e.role_id).default_salary
         IN  IF e.salary < role_default THEN "ValidationError" ELSE "ok"

-----------------------------------------------------------------------------
(* The storage layer fails a statement of the running transaction (a lost  *)
(* connection, a crash): the exception leaves transaction.atomic().        *)

\* A rolled-back command leaves its sequences advanced unless it truncated;
\* the model lets that happen only while the sequences it started from are
\* within MaxSeqStart.
SequencesKept ==
    \/ cfg.truncate
    \/ <<roleSeq, deptSeq, employeeSeq>> =
          <<txSaved.roleSeq, txSaved.deptSeq, txSaved.employeeSeq>>
    \/ /\ txSaved.roleSeq <= MaxSeqStart
       /\ txSaved.deptSeq <= MaxSeqStart
       /\ txSaved.employeeSeq <= MaxSeqStart

DbFailure ==
    /\ InTransaction
    /\ SequencesKept
    /\ Rollback("DatabaseError")
    /\ UNCHANGED <<cfg, rnd, txSaved, localVars, writes, manualOps, seededWith, validation, rows, tree>>

\* The command has ended; its process is gone.  What a completed command
\* was run with is remembered for comparing the next one with it.
Exit ==
    /\ pc \in {"done", "failed"}
    /\ pc' = "idle"
    /\ cfg' = NoCfg
    /\ rnd' = 0
    /\ txSaved' = NoSnapshot
    /\ ClearLocals
    /\ error' = ""
    /\ errorAt' = ""
    /\ writes' = 0
    /\ seededWith' = IF pc = "done" THEN GenerationParameters(cfg) ELSE seededWith
    /\ UNCHANGED <<storeVars, manualOps, validation, rows, tree>>

-----------------------------------------------------------------------------
(* Department.clean and the saving of one department.                      *)

\* AncestorWalk that looks at the new parent and at its parent, and no further
AncestorWalk_twoSteps(table, pk, ancestor, visited) ==
    IF ancestor = NULL THEN "ok"
    ELSE IF ancestor = pk \/ table[ancestor] = pk THEN "CycleError"
    ELSE "ok"

\* The while loop of clean, lines 51-55: `ancestor` is a stored department,
\* each ancestor.parent is read from the table.  The loop has no other exit
\* than reaching a root or reaching pk: when the chain comes back to a
\* department it has already visited, it never ends ("diverges").
RECURSIVE AncestorWalk(_, _, _, _)
AncestorWalk(table, pk, ancestor, visited) ==
    IF ancestor = NULL THEN "ok"
    ELSE IF ancestor = pk THEN "CycleError"
    ELSE IF ancestor \in visited THEN "diverges"
    ELSE AncestorWalk(table, pk, table[ancestor], visited \cup {ancestor})

\* Department.clean of an instance with identity pk (NULL when unsaved) and
\* parent_id, against the stored table.
Clean(table, pk, parent_id) ==
    IF parent_id = NULL \/ pk = NULL
    THEN IF parent_id # NULL /\ parent_id = pk THEN "SelfParentError" ELSE "ok"
    ELSE IF parent_id = pk THEN "SelfParentError"
    ELSE AncestorWalk(table, pk, parent_id, {})

\* Model.save of a Department (the class defines no save of its own): an
\* INSERT with the next identity when pk is NULL, else an UPDATE of the row.
SaveDepartment(pk, parent_id) ==
    IF pk = NULL
    THEN /\ deptTable' = BulkCreateDepartments(deptTable, deptSeq, <<parent_id>>)
         /\ deptSeq' = deptSeq + 1
    ELSE /\ deptTable' = [deptTable EXCEPT ![pk] = parent_id]
         /\ UNCHANGED deptSeq

ManualIds == DeptIds \cap (1..MaxManualId)

\* department.save() with no validation before it
DepartmentSave(pk, parent_id) ==
    /\ pc = "idle"
    /\ manualOps < MaxManualOps
    /\ pk \in ManualIds \cup {NULL}
    /\ parent_id \in ManualIds \cup {NULL}
    /\ manualOps' = manualOps + 1
    /\ SaveDepartment(pk, parent_id)
    /\ validation' = NoValidation
    /\ rows' = <<>>
    /\ tree' = NoTree
    /\ UNCHANGED <<roleTable, employeeTable, roleSeq, employeeSeq, pc, cfg, rnd,
                   txSaved, localVars, error, errorAt, writes, seededWith>>

\* department.full_clean() and then department.save(), as a form does: the
\* row is written only when clean returns.
DepartmentCleanSave(pk, parent_id) ==
    /\ pc = "idle"
    /\ manualOps < MaxManualOps
    /\ pk \in ManualIds \cup {NULL}
    /\ parent_id \in ManualIds \cup {NULL}
    /\ manualOps' = manualOps + 1
    /\ validation' = [pk |-> pk, parent_id |-> parent_id,
                       result |-> Clean(deptTable, pk, parent_id)]
    /\ IF Clean(deptTable, pk, parent_id) = "ok"
       THEN SaveDepartment(pk, parent_id)
       ELSE UNCHANGED <<deptTable, deptSeq>>
    /\ rows' = <<>>
    /\ tree' = NoTree
    /\ UNCHANGED <<roleTable, employeeTable, roleSeq, employeeSeq, pc, cfg, rnd,
                   txSaved, localVars, error, errorAt, writes, seededWith>>

-----------------------------------------------------------------------------
(* _build_department_tree and the index view.                              *)

RowIds(rs) == {rs[i].id : i \in 1..Len(rs)}

\* d.employees.count(), the number in the node's label
EmployeesOf(dep_id) ==
    Cardinality({i \in 1..Len(employeeTable) :
                    employeeTable[i].department_id = dep_id})

\* The identities appended to one children list (parent = an identity) or to
\* roots (parent = NULL), in the order the second loop meets them.
RECURSIVE Appended(_, _, _)
Appended(rs, parent, i) ==
    IF i > Len(rs) THEN <<>>
    ELSE (IF rs[i].parent_id = parent THEN <<rs[i].id>> ELSE <<>>)
         \o Appended(rs, parent, i + 1)

\* SortNodes that leaves the nodes in the order they were appended
SortNodes_asAppended(ids) == ids

\* nodes.sort(key=lambda n: n.id)
SortNodes(ids) == SortedSeq(Range(ids))

\* The node of dep_id after sort_rec: its children sorted, each one sorted.
RECURSIVE Node(_, _)
Node(rs, dep_id) ==
    LET kids == SortNodes(Appended(rs, dep_id, 1))
    IN  [id |-> dep_id,
         employees |-> EmployeesOf(dep_id),
         children |-> [i \in 1..Len(kids) |-> Node(rs, kids[i])]]

\* MissingParent that lets a row without its parent through
MissingParent_ignored(rs, i) == FALSE

\* lines 44-45: node_by_id.get(parent_id) is None for a row with a parent
MissingParent(rs, i) ==
    rs[i].parent_id # NULL /\ rs[i].parent_id \notin RowIds(rs)

\* The positions of the rows that raise, in the order the loop meets them.
Dangling(rs) ==
    Appended([i \in 1..Len(rs) |->
                 [id |-> i, parent_id |-> IF MissingParent(rs, i) THEN 1 ELSE 0]],
             1, 1)

BuildDepartmentTree(rs) ==
    IF Dangling(rs) # <<>>
    THEN LET d == rs[Dangling(rs)[1]]
         IN  [status |-> "DanglingReferenceError", roots |-> <<>>,
              dep_id |-> d.id, parent_id |-> d.parent_id]
    ELSE LET top == SortNodes(Appended(rs, NULL, 1))
         IN  [status |-> "ok",
              roots |-> [i \in 1..Len(top) |-> Node(rs, top[i])],
              dep_id |-> NULL, parent_id |-> NULL]

\* index: all departments by identity, assembled for the template
Index ==
    /\ pc = "idle"
    /\ rows' = DepartmentsAll
    /\ tree' = BuildDepartmentTree(DepartmentsAll)
    /\ UNCHANGED <<storeVars, pc, cfg, rnd, txSaved, localVars, error, errorAt,
                   writes, manualOps, seededWith, validation>>

-----------------------------------------------------------------------------
(* The program: the seeding command, single saves and the view.            *)

Next ==
    \/ \E o \in Options : HandleStart(o)
    \/ Truncate
    \/ EnsureRoles
    \/ EnsureTreeStart
    \/ EnsureTreeLevel
    \/ SeedEmployeesStart
    \/ SeedEmployeesBatch
    \/ DbFailure
    \/ Exit
    \/ \E pk \in 0..MaxManualId, parent_id \in 0..MaxManualId :
          DepartmentSave(pk, parent_id)
    \/ \E pk \in 0..MaxManualId, parent_id \in 0..MaxManualId :
          DepartmentCleanSave(pk, parent_id)
    \/ Index

Spec == Init /\ [][Next]_vars

-----------------------------------------------------------------------------
(* _build_department_tree on its own: any rows with distinct identities,   *)
(* in any order, parents present or not.                                   *)

MissingId == MaxRows + 1      \* an identity no row has

AssembleRow == [id : 1..MaxRows, parent_id : (0..MaxRows) \cup {MissingId}]

AssembleInputs ==
    {rs \in UNION {[1..n -> AssembleRow] : n \in 0..MaxRows} :
        \A i, j \in 1..Len(rs) : rs[i].id = rs[j].id => i = j}

InitAssemble ==
    /\ roleTable = {}
    /\ deptTable = EmptyTable
    /\ employeeTable = <<>>
    /\ roleSeq = 1
    /\ deptSeq = 1
    /\ employeeSeq = 1
    /\ pc = "assemble"
    /\ cfg = NoCfg
    /\ rnd = 0
    /\ txSaved = NoSnapshot
    /\ roles = <<>>
    /\ departments = <<>>
    /\ existing_count = 0
    /\ prev_level_nodes = <<>>
    /\ created = <<>>
    /\ level = 0
    /\ now = 0
    /\ empCreated = 0
    /\ error = ""
    /\ errorAt = ""
    /\ writes = 0
    /\ manualOps = 0
    /\ validation = NoValidation
    /\ rows \in AssembleInputs
    /\ tree = NoTree
    /\ seededWith = NoParameters

Assemble ==
    /\ pc = "assemble"
    /\ tree' = BuildDepartmentTree(rows)
    /\ pc' = "assembled"
    /\ UNCHANGED <<storeVars, cfg, rnd, txSaved, localVars, error, errorAt,
                   writes, manualOps, seededWith, validation, rows>>

NextAssemble == Assemble

SpecAssemble == InitAssemble /\ [][NextAssemble]_vars

-----------------------------------------------------------------------------
(* _seed_employees on its own: called inside a transaction with any role   *)
(* pool and department list, empty ones included, on an employee-free      *)
(* store.                                                                  *)

PoolRoles(n) ==
    {[id |-> i, name |-> i, default_salary |-> SalaryLow + 1000 * i] : i \in 1..n}

\* a chain: department 1 is the root, department i + 1 is under department i
PoolDepartments(m) == [id \in 1..m |-> id - 1]

InitPopulate ==
    /\ \E n \in 0..MaxPool, m \in 0..MaxPool :
          /\ roleTable = PoolRoles(n)
          /\ deptTable = PoolDepartments(m)
          /\ roleSeq = n + 1
          /\ deptSeq = m + 1
          /\ roles = RoleRows(PoolRoles(n))
          /\ departments = DepartmentRows(PoolDepartments(m))
          /\ txSaved = [roles |-> PoolRoles(n), departments |-> PoolDepartments(m),
                        employees |-> <<>>, roleSeq |-> n + 1, deptSeq |-> m + 1,
                        employeeSeq |-> 1]
    /\ employeeTable = <<>>
    /\ employeeSeq = 1
    /\ pc = "populate"
    /\ cfg \in {[BaseOptions EXCEPT !.employees = e, !.batch_size = b, !.seed = sd] :
                  e \in 1..MaxTotal,
                  b \in (1..MaxBatch) \cup {DefaultBatchSize},
                  sd \in Seeds}
    /\ rnd = 0
    /\ existing_count = 0
    /\ prev_level_nodes = <<>>
    /\ created = <<>>
    /\ level = 0
    /\ now = 0
    /\ empCreated = 0
    /\ error = ""
    /\ errorAt = ""
    /\ writes = 0
    /\ manualOps = 0
    /\ validation = NoValidation
    /\ rows = <<>>
    /\ tree = NoTree
    /\ seededWith = NoParameters

NextPopulate ==
    \/ SeedEmployeesStart
    \/ SeedEmployeesBatch

SpecPopulate == InitPopulate /\ [][NextPopulate]_vars

-----------------------------------------------------------------------------
(* Department.clean on its own: any stored parent map, a cyclic one        *)
(* included, and any instance to validate.                                 *)

ParentMaps == UNION {[1..n -> 0..n] : n \in 1..MaxCleanIds}

InitClean ==
    /\ roleTable = {}
    /\ deptTable \in ParentMaps
    /\ employeeTable = <<>>
    /\ roleSeq = 1
    /\ deptSeq = Cardinality(DOMAIN deptTable) + 1
    /\ employeeSeq = 1
    /\ pc = "validate"
    /\ cfg = NoCfg
    /\ rnd = 0
    /\ txSaved = NoSnapshot
    /\ roles = <<>>
    /\ departments = <<>>
    /\ existing_count = 0
    /\ prev_level_nodes = <<>>
    /\ created = <<>>
    /\ level = 0
    /\ now = 0
    /\ empCreated = 0
    /\ error = ""
    /\ errorAt = ""
    /\ writes = 0
    /\ manualOps = 0
    /\ validation = NoValidation
    /\ rows = <<>>
    /\ tree = NoTree
    /\ seededWith = NoParameters

ValidateParent(pk, parent_id) ==
    /\ pc = "validate"
    /\ pk \in DeptIds \cup {NULL}
    /\ parent_id \in DeptIds \cup {NULL}
    /\ validation' = [pk |-> pk, parent_id |-> parent_id,
                       result |-> Clean(deptTable, pk, parent_id)]
    /\ pc' = "validated"
    /\ UNCHANGED <<storeVars, cfg, rnd, txSaved, localVars, error, errorAt,
                   writes, manualOps, seededWith, rows, tree>>

NextClean ==
    \E pk \in 0..MaxCleanIds, parent_id \in 0..MaxCleanIds :
        ValidateParent(pk, parent_id)

SpecClean == InitClean /\ [][NextClean]_vars

-----------------------------------------------------------------------------
(* _ensure_department_tree on its own: called inside a transaction on a    *)
(* store without departments, the storage layer giving out the identities  *)
(* of each bulk insert in any of the orders tried.                         *)

InitTree ==
    /\ roleTable = {}
    /\ deptTable = EmptyTable
    /\ employeeTable = <<>>
    /\ roleSeq = 1
    /\ deptSeq = 1
    /\ employeeSeq = 1
    /\ pc = "tree"
    /\ cfg \in {[BaseOptions EXCEPT !.seed = sd] : sd \in Seeds}
    /\ rnd = 0
    /\ txSaved = [NoSnapshot EXCEPT !.roleSeq = 1, !.deptSeq = 1, !.employeeSeq = 1]
    /\ roles = <<>>
    /\ departments = <<>>
    /\ existing_count = 0
    /\ prev_level_nodes = <<>>
    /\ created = <<>>
    /\ level = 0
    /\ now = 0
    /\ empCreated = 0
    /\ error = ""
    /\ errorAt = ""
    /\ writes = 0
    /\ manualOps = 0
    /\ validation = NoValidation
    /\ rows = <<>>
    /\ tree = NoTree
    /\ seededWith = NoParameters

NextTree ==
    \/ EnsureTreeStart
    \/ EnsureTreeLevelAnyOrder

SpecTree == InitTree /\ [][NextTree]_vars

-----------------------------------------------------------------------------
(* Properties.                                                             *)

\* Level 1 is the departments without parent, level L + 1 the departments
\* whose parent is in level L.
RECURSIVE LevelSet(_, _)
LevelSet(table, L) ==
    IF L = 1 THEN {id \in DOMAIN table : table[id] = NULL}
    ELSE LET above == LevelSet(table, L - 1)
         IN  {id \in DOMAIN table : table[id] # NULL /\ table[id] \in above}

\* _ensure_department_tree has returned from building the tree
TreeBuilt == pc \in {"populate", "batch", "done"} /\ existing_count = 0

\* C1: when _ensure_department_tree has run on a store without departments,
\* the store holds exactly 25 departments: 1 without parent, 3 whose parent
\* is that root, 5 whose parent is one of those 3, 7 under those 5 and 9
\* under those 7.
C1_TreeShape ==
    TreeBuilt =>
        /\ DepartmentCount = 25
        /\ \A L \in 1..5 : Cardinality(LevelSet(deptTable, L)) = counts[L]
        /\ UNION {LevelSet(deptTable, L) : L \in 1..5} = DeptIds

\* C1 witness: the tree has been built with identities that do not start at 1.
C1_Witness ==
    /\ TreeBuilt
    /\ DepartmentCount = 25
    /\ 1 \notin DeptIds

\* C5: when the store holds at least cfg.departments departments,
\* _ensure_department_tree creates none and returns the cfg.departments rows
\* with the lowest identities, in ascending order of identity.
C5_ReuseLowestRows ==
    (pc = "populate" /\ existing_count >= cfg.departments) =>
        /\ deptTable = txSaved.departments
        /\ deptSeq = txSaved.deptSeq
        /\ Len(departments) = cfg.departments
        /\ \A i \in 1..Len(departments) :
              /\ departments[i].id \in DeptIds
              /\ departments[i].parent_id = deptTable[departments[i].id]
        /\ \A i \in 1..(Len(departments) - 1) :
              departments[i].id < departments[i + 1].id
        /\ \A id \in DeptIds \ {departments[i].id : i \in 1..Len(departments)} :
              id > departments[Len(departments)].id

\* C5 witness: the store held one department more than the target.
C5_Witness ==
    /\ pc = "populate"
    /\ existing_count = cfg.departments + 1
    /\ Len(departments) = cfg.departments

\* C6: when the store holds n departments with 0 < n < cfg.departments,
\* _ensure_department_tree ends with StateConflictError having drawn no
\* department identity; it never goes on to build or to reuse.
C6_PartialTableRefused ==
    (pc # "idle" /\ 0 < existing_count /\ existing_count < cfg.departments) =>
        /\ pc = "failed"
        /\ error = "StateConflictError"
        /\ errorAt = "tree"
        /\ deptTable = txSaved.departments
        /\ deptSeq = txSaved.deptSeq

\* C6 witness: the command was refused on a store of one department.
C6_Witness ==
    /\ pc = "failed"
    /\ error = "StateConflictError"
    /\ errorAt = "tree"
    /\ existing_count = 1
    /\ DepartmentCount = 1


\* Following parent links n times from id, stopping at NULL.
RECURSIVE Up(_, _, _)
Up(table, id, n) ==
    IF id = NULL \/ n = 0 THEN id ELSE Up(table, table[id], n - 1)

\* No department is its own ancestor: every chain of parents ends.
Acyclic(table) ==
    \A id \in DOMAIN table : Up(table, id, Cardinality(DOMAIN table)) = NULL

\* The departments met when following parent links from id, id included.
ChainFrom(table, id) ==
    {Up(table, id, k) : k \in 0..Cardinality(DOMAIN table)} \ {NULL}

\* C2: the stored parent graph has no self-parent and no cycle, whatever
\* sequence of seeding commands and single-department saves has run.
C2_ParentGraphAcyclic == Acyclic(deptTable)

\* C3: on an acyclic stored graph, clean of an existing department A with
\* parent B ends with SelfParentError when B = A, with CycleError when the
\* parent chain from B reaches A, and returns in every other case; it
\* returns exactly when the graph with A's parent set to B is acyclic.
C3_CleanVerdict ==
    (pc = "validated" /\ validation.pk # NULL /\ Acyclic(deptTable)) =>
        LET A == validation.pk
            B == validation.parent_id
            r == validation.result
            after == [deptTable EXCEPT ![A] = B]
            reaches == B # NULL /\ A \in ChainFrom(deptTable, B)
        IN  /\ (B = A => r = "SelfParentError")
            /\ (B # A /\ reaches => r = "CycleError")
            /\ (B # A /\ ~reaches => r = "ok")
            /\ (r = "ok" <=> Acyclic(after))

\* C3 witness: clean has refused a parent whose chain reaches the department
\* over more than one link.
C3_Witness ==
    /\ pc = "validated"
    /\ Acyclic(deptTable)
    /\ validation.result = "CycleError"
    /\ deptTable[validation.parent_id] # validation.pk

\* C4: when the command ends with an error raised inside the transaction,
\* the role, department and employee tables are what they were when the
\* transaction was entered.
C4_AllOrNothing ==
    (pc = "failed" /\ errorAt # "validate") =>
        /\ roleTable = txSaved.roles
        /\ deptTable = txSaved.departments
        /\ employeeTable = txSaved.employees

\* C4 witness: a command with --truncate on a seeded store has failed after
\* the truncation and after an employee batch was inserted.
C4_Witness ==
    /\ pc = "failed"
    /\ errorAt = "batch"
    /\ cfg.truncate
    /\ empCreated > 0
    /\ txSaved.employees # <<>>
    /\ employeeTable = txSaved.employees


\* C7: _seed_employees on an employee-free store inserts cfg.employees
\* employees, and the k-th of them (0-based, over all batches) belongs to
\* departments[k mod len(departments)].
C7_RoundRobin ==
    /\ (pc \in {"batch", "done"} /\ txSaved.employees = <<>>) =>
          /\ Len(employeeTable) = empCreated
          /\ \A k \in 0..(Len(employeeTable) - 1) :
                employeeTable[k + 1].department_id =
                    departments[(k % Len(departments)) + 1].id
    /\ (pc = "done" /\ txSaved.employees = <<>>) =>
          Len(employeeTable) = cfg.employees

\* C7 witness: more employees than departments, inserted in several batches
\* whose size does not divide the number of departments.
C7_Witness ==
    /\ pc = "done"
    /\ Len(departments) > 1
    /\ cfg.batch_size > 1
    /\ cfg.batch_size < cfg.employees
    /\ Len(departments) % cfg.batch_size # 0
    /\ Len(employeeTable) = cfg.employees
    /\ cfg.employees > 2 * Len(departments)

\* A command that passed validation, runs without --truncate and found
\* employees in the store.
RepeatedRun ==
    /\ pc # "idle"
    /\ ~ConfigInvalid(cfg)
    /\ ~cfg.truncate
    /\ txSaved.employees # <<>>

\* C8: a command without --truncate on a store that holds employees never
\* inserts an employee and never completes; when it ends, it has ended with
\* StateConflictError raised in _seed_employees (or with a failure of the
\* storage layer itself) and the store is what it was.
C8_RepeatedRunRefused ==
    RepeatedRun =>
        /\ employeeTable = txSaved.employees
        /\ employeeSeq = txSaved.employeeSeq
        /\ pc \notin {"batch", "done"}
        /\ pc = "failed" =>
              /\ \/ error = "StateConflictError" /\ errorAt = "populate"
                 \/ error = "DatabaseError"
              /\ Store = txSaved

\* C8 witness: the repeated command has been refused by _seed_employees.
C8_Witness ==
    /\ RepeatedRun
    /\ pc = "failed"
    /\ error = "StateConflictError"
    /\ errorAt = "populate"

\* C9: when the command ends with ConfigurationError it has issued no write
\* statement: no TRUNCATE and no insert of roles, departments or employees.
C9_ConfigErrorBeforeWrites ==
    error = "ConfigurationError" => writes = 0

\* C9 witness: options with --truncate were refused on a seeded store, which
\* still holds its employees.
C9_Witness ==
    /\ pc = "failed"
    /\ error = "ConfigurationError"
    /\ cfg.truncate
    /\ employeeTable # <<>>

\* The positions of the rows whose parent is none of the rows' identities.
DanglingRows(rs) ==
    {i \in 1..Len(rs) :
        rs[i].parent_id # NULL /\ \A j \in 1..Len(rs) : rs[j].id # rs[i].parent_id}

\* C10: _build_department_tree ends with DanglingReferenceError, naming a row
\* and its missing parent and returning no forest, exactly when some row's
\* parent is not among the rows.
C10_DanglingReported ==
    pc = "assembled" =>
        IF DanglingRows(rows) # {}
        THEN /\ tree.status = "DanglingReferenceError"
             /\ tree.roots = <<>>
             /\ \E i \in DanglingRows(rows) :
                   /\ tree.dep_id = rows[i].id
                   /\ tree.parent_id = rows[i].parent_id
        ELSE tree.status = "ok"

\* C10 witness: rows (1, none), (2, missing) have been refused.
C10_Witness ==
    /\ pc = "assembled"
    /\ Len(rows) = 2
    /\ rows[1] = [id |-> 1, parent_id |-> NULL]
    /\ rows[2] = [id |-> 2, parent_id |-> MissingId]
    /\ tree.status = "DanglingReferenceError"
    /\ tree.dep_id = 2
    /\ tree.parent_id = MissingId

IdsOf(nodes) == [i \in 1..Len(nodes) |-> nodes[i].id]

Ascending(ids) == \A i \in 1..(Len(ids) - 1) : ids[i] < ids[i + 1]

\* The identities of the rows of R whose parent_id is `parent`.
ChildrenIn(R, parent) == {r.id : r \in {x \in R : x.parent_id = parent}}

\* `nodes` is what the set of rows R says about `parent`: the rows under it,
\* each once, ascending by identity, and the same for every node below.
RECURSIVE Faithful(_, _, _)
Faithful(nodes, R, parent) ==
    /\ Ascending(IdsOf(nodes))
    /\ Range(IdsOf(nodes)) = ChildrenIn(R, parent)
    /\ \A i \in 1..Len(nodes) : Faithful(nodes[i].children, R, nodes[i].id)

\* C11: for rows without a dangling parent, in whatever order they are
\* given, _build_department_tree returns the forest that the set of rows
\* determines: the roots are the rows without parent, the children of a node
\* are the rows whose parent_id is the node's id, and the roots and every
\* children list are strictly ascending by id.
C11_OrderIndependentForest ==
    (pc = "assembled" /\ DanglingRows(rows) = {}) =>
        /\ tree.status = "ok"
        /\ Faithful(tree.roots, Range(rows), NULL)

\* C11 witness: the rows (3, 1), (2, 1), (1, none), given in descending
\* order, came out as the root 1 with the children 2, 3.
C11_Witness ==
    /\ pc = "assembled"
    /\ rows = <<[id |-> 3, parent_id |-> 1], [id |-> 2, parent_id |-> 1],
                [id |-> 1, parent_id |-> NULL]>>
    /\ tree.status = "ok"
    /\ IdsOf(tree.roots) = <<1>>
    /\ IdsOf(tree.roots[1].children) = <<2, 3>>

\* C12: the employees _seed_employees inserts are determined by the seed,
\* the role pool, the department list, the total and the clock reading, with
\* no part for the batch size: employee k (0-based) is built from the draws
\* 7k .. 7k + 6 of the stream, wherever the batch boundaries fall.
C12_BatchSizeIrrelevant ==
    (pc \in {"batch", "done"} /\ txSaved.employees = <<>>) =>
        /\ pc = "done" => Len(employeeTable) = cfg.employees
        /\ \A k \in 0..(Len(employeeTable) - 1) :
              employeeTable[k + 1] =
                  EmployeeAt(k, cfg.seed, DrawsPerEmployee * k, roles,
                             departments, now, k + 1)

\* C12 witness: seven employees were inserted in batches of two, the last
\* batch a partial one, from pools of more than one role and department.
C12_Witness ==
    /\ pc = "done"
    /\ cfg.employees = 7
    /\ cfg.batch_size = 2
    /\ Len(employeeTable) = 7
    /\ Len(roles) > 1
    /\ Len(departments) > 1

\* The generated attributes of the roles, in the order they were created.
RoleAttributes(table) ==
    LET ids == SortedSeq({r.id : r \in table})
    IN  [i \in 1..Len(ids) |->
            LET r == CHOOSE x \in table : x.id = ids[i]
            IN  [name |-> r.name, default_salary |-> r.default_salary]]

\* The generated attributes of the employees, in the order they were
\* inserted; the role is named, not identified.
EmployeeAttributes(employees, table) ==
    [k \in 1..Len(employees) |->
        [full_name |-> employees[k].full_name,
         role |-> (CHOOSE r \in table : r.id = employees[k].role_id).name,
         salary |-> employees[k].salary,
         employment_date |-> employees[k].employment_date]]

\* A command with --truncate has completed, and the command that completed
\* before it, whose roles and employees the store held, had the same
\* generation parameters.
SecondRun ==
    /\ pc = "done"
    /\ cfg.truncate
    /\ txSaved.employees # <<>>
    /\ seededWith = GenerationParameters(cfg)

\* C13: two completed runs of the command with the same parameters generate
\* the same roles (names, baselines) and the same employees (names, roles,
\* salaries, employment timestamps), identities aside.
C13_SameSeedSameAttributes ==
    SecondRun =>
        /\ RoleAttributes(roleTable) = RoleAttributes(txSaved.roles)
        /\ EmployeeAttributes(employeeTable, roleTable) =
              EmployeeAttributes(txSaved.employees, txSaved.roles)

\* The longest backdating: 3650 days and 86399 seconds.
MaxSecondsBack == MaxDaysBack * SecondsPerDay + SecondsPerDay - 1

\* C13, amended: two completed runs with the same parameters generate the
\* same roles and the same employee names, roles and salaries; the
\* employment timestamps of a run are its clock reading minus backdating
\* offsets that are the same in both runs, so the timestamps of the two runs
\* differ by one common shift, the difference of the two clock readings.
C13_SameSeedSameOffsets ==
    SecondRun =>
        LET new == EmployeeAttributes(employeeTable, roleTable)
            old == EmployeeAttributes(txSaved.employees, txSaved.roles)
        IN  /\ RoleAttributes(roleTable) = RoleAttributes(txSaved.roles)
            /\ Len(new) = Len(old)
            /\ \A k \in 1..Len(new) :
                  /\ new[k].full_name = old[k].full_name
                  /\ new[k].role = old[k].role
                  /\ new[k].salary = old[k].salary
                  /\ now - new[k].employment_date \in 0..MaxSecondsBack
                  /\ new[k].employment_date - old[k].employment_date =
                        new[1].employment_date - old[1].employment_date

\* C13 witness: the second of two runs with the same parameters has
\* completed at another clock reading, and its timestamps are not the first
\* run's.
C13_Witness ==
    /\ SecondRun
    /\ Len(employeeTable) = Len(txSaved.employees)
    /\ employeeTable[1].employment_date # txSaved.employees[1].employment_date

\* _ensure_roles has returned in a command that found roles in the store.
RolesExisted ==
    /\ pc \in {"tree", "level", "populate", "batch", "done"}
    /\ ~cfg.truncate
    /\ txSaved.roles # {}

\* C14: when the store holds a role, _ensure_roles leaves the role table and
\* its sequence as they were and returns the stored roles, each once and no
\* other, whether cfg.roles is their number or not.
C14_ExistingRolesKept ==
    RolesExisted =>
        /\ roleTable = txSaved.roles
        /\ roleSeq = txSaved.roleSeq
        /\ Range(roles) = txSaved.roles
        /\ Len(roles) = Cardinality(txSaved.roles)

\* C14 witness: two roles were asked for and the thirteen stored ones were
\* returned.
C14_Witness ==
    /\ RolesExisted
    /\ cfg.roles = 2
    /\ Len(roles) = Len(role_names) + 1
    /\ Cardinality(roleTable) = Len(role_names) + 1

\* The departments of `table` are 25 in levels of 1, 3, 5, 7 and 9.
LevelShape(table) ==
    /\ Cardinality(DOMAIN table) = RequiredDepartments
    /\ \A L \in 1..RequiredLevels : Cardinality(LevelSet(table, L)) = counts[L]
    /\ UNION {LevelSet(table, L) : L \in 1..RequiredLevels} = DOMAIN table

\* C15: in whatever order, and after whatever gap, the storage layer gives
\* fresh identities to the records of each bulk insert, the window read back
\* after a level's insert is exactly the nodes inserted for that level, and
\* the tree returned has 1, 3, 5, 7, 9 nodes per level, every node of a
\* level under a node of the level above.
C15_ShapeUnderAnyIdentityOrder ==
    /\ pc = "level" =>
          /\ Len(prev_level_nodes) = counts[level - 1]
          /\ Range(IdsOf(prev_level_nodes)) = LevelSet(deptTable, level - 1)
    /\ pc = "populate" =>
          /\ LevelShape(deptTable)
          /\ Range(IdsOf(departments)) = DeptIds

\* C15 witness: the tree was built with identities given out of list order
\* (the lowest node of level 3 is not under the lowest node of level 2) and
\* with gaps.
C15_Witness ==
    /\ pc = "populate"
    /\ LevelShape(deptTable)
    /\ LET lowest(S) == CHOOSE x \in S : \A y \in S : x <= y
       IN  deptTable[lowest(LevelSet(deptTable, 3))] # lowest(LevelSet(deptTable, 2))
    /\ \E id \in DeptIds : id > RequiredDepartments

\* The number of departments directly under `id`.
ChildCount(table, id) == Cardinality({c \in DOMAIN table : table[c] = id})

\* _ensure_department_tree has just returned the tree it built.
TreeReturned == pc = "populate" /\ existing_count = 0

\* C16: in the tree the command builds, the i-th node (0-based, in insertion
\* order, which is the order of identities) of each level L in 2..5 is under
\* node i mod len of level L - 1 taken in ascending identity order; so every
\* node of levels 1..4 has a child, and two nodes of one level differ by at
\* most one in their number of children.
C16_RoundRobinParents ==
    TreeReturned =>
        \A sorted \in {[L \in 1..RequiredLevels |-> SortedSeq(LevelSet(deptTable, L))]},
           kids \in {[id \in DeptIds |-> ChildCount(deptTable, id)]} :
            /\ \A L \in 2..RequiredLevels :
                  \A i \in 0..(Len(sorted[L]) - 1) :
                      deptTable[sorted[L][i + 1]] =
                          sorted[L - 1][(i % Len(sorted[L - 1])) + 1]
            /\ \A L \in 1..(RequiredLevels - 1) :
                  /\ \A p \in Range(sorted[L]) : kids[p] >= 1
                  /\ \A p, q \in Range(sorted[L]) : kids[p] - kids[q] <= 1

\* C16 witness: in the built tree the five nodes of level 3 are spread over
\* the three nodes of level 2 as 2, 2, 1, the last node of level 2 having
\* the single child.
C16_Witness ==
    /\ TreeReturned
    /\ LET prev == SortedSeq(LevelSet(deptTable, 2))
       IN  /\ Len(prev) = 3
           /\ ChildCount(deptTable, prev[1]) = 2
           /\ ChildCount(deptTable, prev[2]) = 2
           /\ ChildCount(deptTable, prev[3]) = 1

\* C17: Department.clean ends, with acceptance or with a rejection, on every
\* stored parent map, also on one that holds a cycle which does not pass
\* through the department being validated.
C17_CleanTerminates ==
    pc = "validated" =>
        validation.result \in {"ok", "SelfParentError", "CycleError"}

\* The identities of a forest's nodes, each node before its children.
RECURSIVE ForestIds(_, _)
ForestIds(nodes, i) ==
    IF i > Len(nodes) THEN <<>>
    ELSE <<nodes[i].id>> \o ForestIds(nodes[i].children, 1)
                         \o ForestIds(nodes, i + 1)

\* C18: when _build_department_tree returns a forest, every input row is in
\* it exactly once, as a root or as a child; no row is left out, not even
\* when the parent_ids of the rows form a cycle.
C18_EveryRowPlaced ==
    (pc = "assembled" /\ tree.status = "ok") =>
        /\ Range(ForestIds(tree.roots, 1)) = RowIds(rows)
        /\ Len(ForestIds(tree.roots, 1)) = Len(rows)

\* C19: when the command completes, every employee it inserted refers to a
\* stored role and has a salary from that role's default_salary up to
\* default_salary + 120000; Employee.clean, which bulk_create does not run,
\* would accept each of them.
C19_SalaryWithinRoleRange ==
    pc = "done" =>
        \A k \in 1..Len(employeeTable) :
            /\ \E r \in roleTable :
                  /\ r.id = employeeTable[k].role_id
                  /\ r.default_salary <= employeeTable[k].salary
                  /\ employeeTable[k].salary <= r.default_salary + SalaryBonusMax
            /\ EmployeeClean(roleTable, employeeTable[k]) = "ok"

\* C19 witness: a command has completed whose employees were given at least
\* two roles with different baselines.
C19_Witness ==
    /\ pc = "done"
    /\ Len(employeeTable) = cfg.employees
    /\ \E r, q \in roleTable :
          /\ r.default_salary < q.default_salary
          /\ \E j, k \in 1..Len(employeeTable) :
                /\ employeeTable[j].role_id = r.id
                /\ employeeTable[k].role_id = q.id

====
